---- MODULE Spec2Model ----
(***************************************************************************)
(* Inventory ledger of the library management system (src/python.py):      *)
(* the book catalog with its copy counts, the member registry, the loan    *)
(* transactions, the SQLite admin_saves table behind the "Active           *)
(* Borrowers" screen, the stock audit trail and the lookup index.          *)
(*                                                                         *)
(* Python dictionaries are objects shared by reference between the book    *)
(* list and the lookup index, so every book record carries a "ref" field   *)
(* standing for the identity of its dictionary; the index maps keys to     *)
(* refs.  One action models one handler of the program, start to end.      *)
(***************************************************************************)
EXTENDS Integers, Sequences, FiniteSets, TLC

\* ---------------------------------------------------------------- bounds
MaxBooks == 2        \* books in the catalog
MaxCopies == 2       \* largest total_copies / available_copies explored
MaxTx == 2           \* loan transactions
MaxHistory == 2      \* stock audit records
MaxRows == 2         \* rows of a bulk restock sheet
MaxObservers == 2    \* observer objects
MaxDays == 3         \* days a run lasts after its first day
MaxThreads == 2      \* background threads of the issue form
MaxSize == 2         \* max_size of the FastCache under test
MaxMembers == 2      \* members in the register
MaxBorrowed == 3     \* largest total_borrowed explored
MaxAccess == 3       \* largest access count explored

\* ---------------------------------------------------- program constants
LowStockThreshold == 3

\* ------------------------------------------------------------ input sets
None == 0

\* datetime.now().strftime("%Y-%m-%d"): a run takes place within one day
Today == "2026-11-01"

\* f"ISBN{n:04d}"
IsbnTable == <<"ISBN0001", "ISBN0002", "ISBN0003", "ISBN0004">>
IsbnStr(n) == IsbnTable[n]

\* str.lower() on the strings that occur as titles and names
Lower(s) ==
  CASE s = "Dune" -> "dune"
    [] s = "Ann" -> "ann"
    [] s = "Bob" -> "bob"
    [] OTHER -> s

\* titles typed in the add / edit dialogs and into the issue form
Titles == {"Dune", Today}
\* ISBN codes typed into the issue form or listed in a restock sheet
IsbnInputs == {IsbnStr(1), "X-404"}
\* student names typed into the issue form
Names == {"Ann", "Bob"}
\* quantities typed into the restock dialog
Quantities == (-1) .. 1
\* book ids passed to the id-based operations (one more than can exist)
BookIds == 1 .. (MaxBooks + 1)
\* member ids passed to issue_book ("M0001" is 1, ...; one more than exist)
MemberIds == 1 .. (Cardinality(Names) + 1)

VARIABLES
  books,             \* LibraryData.books: list of book dictionaries
  members,           \* LibraryData.members
  transactions,      \* LibraryData.transactions
  admin_saves,       \* rows of the SQLite table admin_saves, in rowid order
  stock_history,     \* StockManagementSystem.stock_history
  by_id,             \* FastBookLookup.by_id: id -> ref
  by_isbn,           \* FastBookLookup.by_isbn: isbn -> ref
  title_lower_map,   \* FastBookLookup.title_lower_map: lower(title) -> ref
  last,              \* the handler that ran last, its inputs and its result
  _observers,        \* DataChangeObserver._observers of book_observable
  delivered,         \* on_data_changed calls made by the last notify_observers
  now,               \* datetime.now(), in clock ticks
  fine,              \* the last calculate_fine call: its argument, time and result
  book_cache,        \* LibraryData.book_cache: cache key -> cached value
  stats,             \* the statistics the last get_statistics call returned
  saved,             \* what save_data wrote, call by call, in the last handler that saved
  published,         \* the change events of the last handler, as the observers got them
  threads,           \* the _save_book_issue_thread threads: position and locals
  cache,             \* FastCache.cache of a cache of max_size MaxSize
  access_count,      \* FastCache.access_count of that cache, in insertion order
  used               \* the keys of that cache, least recently used first

vars == <<books, members, transactions, admin_saves, stock_history,
          by_id, by_isbn, title_lower_map, last, _observers, delivered,
          now, fine, book_cache, stats,
          saved, published, threads, cache, access_count, used>>

\* ------------------------------------------------------------- helpers
RECURSIVE SeqsUpTo(_, _)
\* all sequences over S of length 0..n
SeqsUpTo(S, n) ==
  IF n = 0 THEN {<<>>}
  ELSE LET shorter == SeqsUpTo(S, n - 1)
       IN shorter \cup {Append(q, x) : q \in {r \in shorter : Len(r) = n - 1}, x \in S}

\* s without its i-th element (del s[i])
RemoveAt(s, i) == [j \in 1 .. (Len(s) - 1) |-> IF j < i THEN s[j] ELSE s[j + 1]]

\* position of the first / last element of s that satisfies P, 0 if none
FirstPos(s, P(_)) ==
  IF \E i \in DOMAIN s : P(s[i])
  THEN CHOOSE i \in DOMAIN s : P(s[i]) /\ \A j \in 1 .. (i - 1) : ~P(s[j])
  ELSE 0
LastPos(s, P(_)) ==
  IF \E i \in DOMAIN s : P(s[i])
  THEN CHOOSE i \in DOMAIN s : P(s[i]) /\ \A j \in (i + 1) .. Len(s) : ~P(s[j])
  ELSE 0

\* identity of a freshly created dictionary: the smallest ref not in use
NewRef(bs) == CHOOSE r \in 1 .. (Len(bs) + 1) :
                /\ \A i \in DOMAIN bs : bs[i].ref # r
                /\ \A q \in 1 .. (r - 1) : \E i \in DOMAIN bs : bs[i].ref = q

\* position in the catalog of the dictionary with identity r, 0 if none
PosOfRef(bs, r) == FirstPos(bs, LAMBDA b : b.ref = r)

\* what a handler reports: its name, whether it succeeded, the transaction
\* it was about, and the two result lists of a batch handler
Outcome(op, ok, tx, accepted, rejected) ==
  [op |-> op, ok |-> ok, tx |-> tx, accepted |-> accepted, rejected |-> rejected]
Plain(op, ok) == Outcome(op, ok, 0, <<>>, <<>>)

Max(a, b) == IF a > b THEN a ELSE b

\* the dictionary with identity r, as it currently is in the catalog bs
Deref(bs, r) == bs[PosOfRef(bs, r)]

\* ------------------------------------------------------- FastBookLookup
\* build_index: later books overwrite earlier ones under the same key
IndexBy(bs, Key(_)) ==
  [k \in {Key(bs[i]) : i \in DOMAIN bs} |->
     bs[LastPos(bs, LAMBDA b : Key(b) = k)].ref]
build_index_by_id(bs) == IndexBy(bs, LAMBDA b : b.id)
build_index_by_isbn(bs) == IndexBy(bs, LAMBDA b : b.isbn)
build_index_title_lower_map(bs) == IndexBy(bs, LAMBDA b : Lower(b.title))

get_by_id(book_id) == IF book_id \in DOMAIN by_id THEN by_id[book_id] ELSE None
get_by_isbn(isbn) == IF isbn \in DOMAIN by_isbn THEN by_isbn[isbn] ELSE None
get_by_title(title) ==
  IF Lower(title) \in DOMAIN title_lower_map THEN title_lower_map[Lower(title)] ELSE None

\* the index is rebuilt from bs
Reindexed(bs) ==
  /\ by_id' = build_index_by_id(bs)
  /\ by_isbn' = build_index_by_isbn(bs)
  /\ title_lower_map' = build_index_title_lower_map(bs)

IndexUnchanged == UNCHANGED <<by_id, by_isbn, title_lower_map>>

\* ------------------------------------------------------------- clock
\* clock readings per day: midnight and noon
TicksPerDay == 2
\* "%Y-%m-%d" strings of the days of a run
DateTable == <<"2026-11-01", "2026-11-02", "2026-11-03", "2026-11-04", "2026-11-05">>

\* datetime.strptime(s, "%Y-%m-%d"): the day of a well-formed date string,
\* None (ValueError) for any other string
strptime(s) ==
  IF \E d \in DOMAIN DateTable : DateTable[d] = s
  THEN CHOOSE d \in DOMAIN DateTable : DateTable[d] = s
  ELSE None

\* the datetime of 00:00 on a day, in ticks
midnight(day) == day * TicksPerDay

\* the handlers below leave the clock and the last fine evaluation alone
ClockUnchanged == UNCHANGED <<now, fine>>

CacheUnchanged == UNCHANGED <<book_cache, stats>>

\* ------------------------------------------- persistence, change events
\* save_data: books.json, members.json and transactions.json as it writes them
save_data(bs, ms, txs) == [books |-> bs, members |-> ms, transactions |-> txs]

\* the JSON files as they are now
files == saved[Len(saved)]

\* data.books, data.members and data.transactions when the step is over
MemoryAfter == save_data(books', members', transactions')

\* one notify_data_change(change_type, data_id) call: the lists in memory
\* and the JSON files as they are while the observers run
change_event(change_type, data_id, memory, on_disk) ==
  [change_type |-> change_type, data_id |-> data_id,
   memory |-> memory, files |-> on_disk]

FilesUnchanged == UNCHANGED <<saved, published>>

ThreadsUnchanged == UNCHANGED threads

FastCacheUnchanged == UNCHANGED <<cache, access_count, used>>

\* ------------------------------------------------ DataChangeObserver
\* the UIUpdater registered by LibraryManagementSystem.__init__
ui_updater == 1
\* the observer objects that may be registered
Observers == 1 .. MaxObservers
\* change types and data ids passed to notify_observers
ChangeTypes == {"BOOK_STOCK_UPDATED", "BOOK_DELETED"}

\* the ledger handlers hand their notifications to UIUpdater, which only
\* redraws screens: registrations and the call log stay as they are
ObserversUnchanged == UNCHANGED <<_observers, delivered>>

\* everything but the observer component
LedgerUnchanged ==
  UNCHANGED <<books, members, transactions, admin_saves, stock_history,
              by_id, by_isbn, title_lower_map>>

\* register_observer that appends without looking
register_observer_always(observer) ==
  /\ _observers' = Append(_observers, observer)
  /\ last' = Plain("register_observer", TRUE)
  /\ UNCHANGED delivered
  /\ LedgerUnchanged
  /\ ClockUnchanged
  /\ ThreadsUnchanged
  /\ FastCacheUnchanged
  /\ CacheUnchanged
  /\ FilesUnchanged

\* register_observer: appends the observer unless it is in the list
register_observer(observer) ==
  /\ IF \E i \in DOMAIN _observers : _observers[i] = observer
     THEN /\ UNCHANGED _observers
          /\ last' = Plain("register_observer", FALSE)
     ELSE /\ _observers' = Append(_observers, observer)
          /\ last' = Plain("register_observer", TRUE)
  /\ UNCHANGED delivered
  /\ LedgerUnchanged
  /\ ClockUnchanged
  /\ ThreadsUnchanged
  /\ FastCacheUnchanged
  /\ CacheUnchanged
  /\ FilesUnchanged

\* unregister_observer: list.remove of the observer when it is in the list
unregister_observer(observer) ==
  /\ LET i == FirstPos(_observers, LAMBDA o : o = observer)
     IN IF i = 0
        THEN /\ UNCHANGED _observers
             /\ last' = Plain("unregister_observer", FALSE)
        ELSE /\ _observers' = RemoveAt(_observers, i)
             /\ last' = Plain("unregister_observer", TRUE)
  /\ UNCHANGED delivered
  /\ LedgerUnchanged
  /\ ClockUnchanged
  /\ ThreadsUnchanged
  /\ FastCacheUnchanged
  /\ CacheUnchanged
  /\ FilesUnchanged

\* notify_observers: one on_data_changed call per list entry, in list order
notify_observers(change_type, data_id) ==
  /\ delivered' = [i \in DOMAIN _observers |->
                     [observer |-> _observers[i], change_type |-> change_type,
                      data_id |-> data_id]]
  /\ last' = Plain("notify_observers", TRUE)
  /\ UNCHANGED _observers
  /\ LedgerUnchanged
  /\ ClockUnchanged
  /\ ThreadsUnchanged
  /\ FastCacheUnchanged
  /\ CacheUnchanged
  /\ FilesUnchanged

\* whether an on_data_changed call of this notification raises: UIUpdater
\* catches what its refresh raises, any other registered observer may raise
Raises ==
  IF \E n \in DOMAIN _observers : _observers[n] # ui_updater THEN BOOLEAN ELSE {FALSE}

\* BookDataObservable.update_book_stock: overwrites both counts of the first
\* book with this id, notifies the observers, then saves
update_book_stock(book_id, new_stock_data) ==
  /\ LET i == FirstPos(books, LAMBDA b : b.id = book_id)
     IN IF i = 0
        THEN /\ last' = Plain("update_book_stock", FALSE)
             /\ UNCHANGED <<books, saved>>
             /\ published' = <<>>
        ELSE \E raised \in Raises :
               /\ books' = [books EXCEPT
                              ![i].available_copies = new_stock_data.available_copies,
                              ![i].total_copies = new_stock_data.total_copies]
               /\ published' = <<change_event("BOOK_STOCK_UPDATED", book_id,
                                               save_data(books', members, transactions), files)>>
               /\ saved' = IF raised THEN saved ELSE <<save_data(books', members, transactions)>>
               /\ last' = Plain("update_book_stock", ~raised)
  /\ IndexUnchanged
  /\ UNCHANGED <<members, transactions, admin_saves, stock_history>>
  /\ ObserversUnchanged
  /\ ClockUnchanged
  /\ ThreadsUnchanged
  /\ FastCacheUnchanged
  /\ CacheUnchanged

\* ------------------------------------------------- fines
\* TransactionManager.daily_fine
daily_fine == 10

\* timedelta.days of a non-negative difference of two datetimes
days(delta) == delta \div TicksPerDay

\* calculate_fine with one day more than timedelta.days
calculate_fine_started_days(due_date_str, today) ==
  LET due_day == strptime(due_date_str)
  IN IF due_day = None THEN 0
     ELSE IF today > midnight(due_day)
          THEN (days(today - midnight(due_day)) + 1) * daily_fine
          ELSE 0

\* calculate_fine(due_date_str) evaluated when datetime.now() is today
calculate_fine(due_date_str, today) ==
  LET due_day == strptime(due_date_str)
  IN IF due_day = None THEN 0
     ELSE IF today > midnight(due_day)
          THEN days(today - midnight(due_day)) * daily_fine
          ELSE 0

\* a call of calculate_fine
evaluate_fine(due_date_str) ==
  /\ fine' = [due_date_str |-> due_date_str, at |-> now,
              amount |-> calculate_fine(due_date_str, now)]
  /\ last' = Plain("calculate_fine", TRUE)
  /\ UNCHANGED now
  /\ LedgerUnchanged
  /\ ObserversUnchanged
  /\ CacheUnchanged
  /\ ThreadsUnchanged
  /\ FastCacheUnchanged
  /\ FilesUnchanged

\* time passes
Tick ==
  /\ now < midnight(MaxDays + 2)
  /\ now' = now + 1
  /\ UNCHANGED <<fine, last>>
  /\ LedgerUnchanged
  /\ ObserversUnchanged
  /\ CacheUnchanged
  /\ ThreadsUnchanged
  /\ FastCacheUnchanged
  /\ FilesUnchanged

\* ---------------------------------------------- book_cache, statistics
RECURSIVE total_copies_of(_)
\* sum(book.get("total_copies", 1) for book in books)
total_copies_of(bs) ==
  IF bs = <<>> THEN 0 ELSE Head(bs).total_copies + total_copies_of(Tail(bs))

RECURSIVE available_copies_of(_)
\* sum(book.get("available_copies", 0) for book in books)
available_copies_of(bs) ==
  IF bs = <<>> THEN 0 ELSE Head(bs).available_copies + available_copies_of(Tail(bs))

\* the statistics get_statistics computes from the catalog
library_stats(bs) ==
  [total_books |-> Len(bs), total_copies |-> total_copies_of(bs),
   available_copies |-> available_copies_of(bs)]

\* book_cache.set("library_stats", value) on a cache that is far from full
cache_set(value) == [key \in {"library_stats"} |-> value]

\* book_cache.clear() when the handler reaches it, nothing otherwise
book_cache_clear(reached) ==
  /\ book_cache' = IF reached THEN <<>> ELSE book_cache
  /\ UNCHANGED stats

\* get_statistics: the cached value when there is one, else computed from
\* the catalog and cached
get_statistics ==
  /\ stats' = IF "library_stats" \in DOMAIN book_cache
              THEN book_cache["library_stats"]
              ELSE library_stats(books)
  /\ book_cache' = IF "library_stats" \in DOMAIN book_cache
                   THEN book_cache
                   ELSE cache_set(library_stats(books))
  /\ last' = Plain("get_statistics", TRUE)
  /\ LedgerUnchanged
  /\ ObserversUnchanged
  /\ ClockUnchanged
  /\ ThreadsUnchanged
  /\ FastCacheUnchanged
  /\ FilesUnchanged

\* ------------------------------------------------------------ FastCache
KeyTable == <<"book_1", "book_2", "book_3", "book_4", "book_5">>

\* one key more than the cache holds
CacheKeys == {KeyTable[n] : n \in 1 .. (MaxSize + 1)}

\* the key moved to the most recently used end
Touch(keys, key) == Append(SelectSeq(keys, LAMBDA k : k # key), key)

\* min(self.access_count, key=self.access_count.get): the first key, in
\* insertion order, among those with the smallest count
lru_key(counts) ==
  counts[CHOOSE n \in DOMAIN counts :
           \A m \in DOMAIN counts :
             \/ counts[n].count < counts[m].count
             \/ counts[n].count = counts[m].count /\ n <= m].key

\* FastCache.get: a hit raises the access count of the key
get(key) ==
  /\ IF key \in DOMAIN cache
     THEN /\ \A n \in DOMAIN access_count :
               access_count[n].key = key => access_count[n].count < MaxAccess
          /\ access_count' = [n \in DOMAIN access_count |->
                                IF access_count[n].key = key
                                THEN [access_count[n] EXCEPT !.count = @ + 1]
                                ELSE access_count[n]]
          /\ used' = Touch(used, key)
          /\ last' = Plain("get", TRUE)
     ELSE /\ UNCHANGED <<access_count, used>>
          /\ last' = Plain("get", FALSE)
  /\ UNCHANGED cache
  /\ LedgerUnchanged
  /\ ObserversUnchanged
  /\ UNCHANGED <<now, fine>>
  /\ CacheUnchanged
  /\ FilesUnchanged
  /\ ThreadsUnchanged

\* FastCache.set: a full cache first loses lru_key, then the key is stored
\* with access count 1
set(key, value) ==
  /\ LET full == Cardinality(DOMAIN cache) >= MaxSize
         victim == lru_key(access_count)
         kept == IF full THEN DOMAIN cache \ {victim} ELSE DOMAIN cache
         counts == IF full THEN SelectSeq(access_count, LAMBDA c : c.key # victim)
                   ELSE access_count
     IN /\ cache' = [k \in kept \cup {key} |-> IF k = key THEN value ELSE cache[k]]
        /\ access_count' =
             IF \E n \in DOMAIN counts : counts[n].key = key
             THEN [n \in DOMAIN counts |->
                     IF counts[n].key = key THEN [counts[n] EXCEPT !.count = 1]
                     ELSE counts[n]]
             ELSE Append(counts, [key |-> key, count |-> 1])
        /\ used' = Touch(IF full THEN SelectSeq(used, LAMBDA k : k # victim) ELSE used,
                         key)
  /\ last' = Plain("set", TRUE)
  /\ LedgerUnchanged
  /\ ObserversUnchanged
  /\ UNCHANGED <<now, fine>>
  /\ CacheUnchanged
  /\ FilesUnchanged
  /\ ThreadsUnchanged

\* FastCache.clear
clear ==
  /\ cache' = <<>>
  /\ access_count' = <<>>
  /\ used' = <<>>
  /\ last' = Plain("clear", TRUE)
  /\ LedgerUnchanged
  /\ ObserversUnchanged
  /\ UNCHANGED <<now, fine>>
  /\ CacheUnchanged
  /\ FilesUnchanged
  /\ ThreadsUnchanged

\* ------------------------------------------------- issue form threads
Threads == 1 .. MaxThreads

\* a thread that has not been started
idle == [pc |-> "idle", student_name |-> "", book_name |-> "", isbn_code |-> "",
         existing_book |-> None, book_id |-> 0, member |-> 0, transaction_id |-> 0]

\* ---------------------------------------------------------------- Init
Init ==
  /\ books = <<>>
  /\ members = <<>>
  /\ transactions = <<>>
  /\ admin_saves = <<>>
  /\ stock_history = <<>>
  /\ by_id = <<>>
  /\ by_isbn = <<>>
  /\ title_lower_map = <<>>
  /\ last = Plain("init", TRUE)
  /\ _observers = <<ui_updater>>
  /\ delivered = <<>>
  /\ now = midnight(strptime(Today))
  /\ fine = [due_date_str |-> "", at |-> now, amount |-> 0]
  \* create_welcome_screen has drawn the statistics of the empty catalog
  /\ stats = library_stats(books)
  /\ book_cache = cache_set(stats)
  /\ saved = <<save_data(books, members, transactions)>>
  /\ published = <<>>
  /\ threads = [t \in Threads |-> idle]
  /\ cache = <<>>
  /\ access_count = <<>>
  /\ used = <<>>

\* ---------------------------------------------------------- BookManager
\* add_book: id = len(books) + 1, available_copies = total_copies
add_book(bs, title, isbn, copies) ==
  Append(bs, [ref |-> NewRef(bs), id |-> Len(bs) + 1, title |-> title,
              isbn |-> isbn, total_copies |-> copies,
              available_copies |-> copies])

\* add_new_book_dialog.save_book: validates the copies, then add_book
save_book(title, copies) ==
  /\ Len(books) < MaxBooks
  /\ IF copies < 1
     THEN /\ last' = Plain("save_book", FALSE)
          /\ UNCHANGED books
          /\ IndexUnchanged
     ELSE /\ books' = add_book(books, title, IsbnStr(Len(books) + 1), copies)
          /\ Reindexed(books')
          /\ last' = Plain("save_book", TRUE)
  /\ UNCHANGED <<members, transactions, admin_saves, stock_history>>
  /\ ObserversUnchanged
  /\ ClockUnchanged
  /\ ThreadsUnchanged
  /\ FastCacheUnchanged
  /\ book_cache_clear(last'.ok)
  /\ saved' = IF last'.ok THEN <<MemoryAfter>> ELSE saved
  /\ published' = IF last'.ok
                  THEN <<change_event("BOOK_ADDED", Len(books'), MemoryAfter, MemoryAfter)>>
                  ELSE <<>>

\* update_book: overwrites the given fields of the first book with this id,
\* then compares the new total with old_total, which it reads back from the
\* dictionary it has just overwritten
update_book(bs, book_id, updated_data) ==
  LET i == FirstPos(bs, LAMBDA b : b.id = book_id)
  IN IF i = 0 THEN [ok |-> FALSE, books |-> bs]
     ELSE LET overwritten == [bs[i] EXCEPT !.title = updated_data.title,
                                           !.total_copies = updated_data.total_copies]
              old_total == overwritten.total_copies
              new_total == updated_data.total_copies
              adjusted ==
                IF new_total > old_total
                THEN [overwritten EXCEPT !.available_copies = @ + (new_total - old_total)]
                ELSE IF new_total < old_total
                THEN [overwritten EXCEPT
                        !.available_copies = Max(0, @ - (old_total - new_total)),
                        !.total_copies = new_total]
                ELSE overwritten
          IN [ok |-> TRUE, books |-> [bs EXCEPT ![i] = adjusted]]

\* edit_book_dialog.update_book on the selected catalog row i: validates the
\* new total against the selected book, then BookManager.update_book by id
edit_book_dialog(i, title, total_copies) ==
  /\ i \in DOMAIN books
  /\ LET book == books[i]
         currently_issued == book.total_copies - book.available_copies
         r == update_book(books, book.id,
                          [title |-> title, total_copies |-> total_copies])
     IN IF total_copies < 1 \/ total_copies < currently_issued
        THEN /\ last' = Plain("edit_book_dialog", FALSE)
             /\ UNCHANGED books
             /\ IndexUnchanged
        ELSE /\ books' = r.books
             /\ Reindexed(books')
             /\ last' = Plain("edit_book_dialog", r.ok)
  /\ UNCHANGED <<members, transactions, admin_saves, stock_history>>
  /\ ObserversUnchanged
  /\ ClockUnchanged
  /\ ThreadsUnchanged
  /\ FastCacheUnchanged
  /\ book_cache_clear(last'.ok)
  /\ saved' = IF last'.ok THEN <<MemoryAfter>> ELSE saved
  /\ published' = IF last'.ok
                  THEN <<change_event("BOOK_STOCK_UPDATED", books[i].id,
                                      MemoryAfter, MemoryAfter)>>
                  ELSE <<>>

\* delete_book: refuses the first book with this id while it has copies out
delete_book(book_id) ==
  /\ LET i == FirstPos(books, LAMBDA b : b.id = book_id)
     IN IF i = 0 \/ books[i].available_copies < books[i].total_copies
        THEN /\ last' = Plain("delete_book", FALSE)
             /\ UNCHANGED books
             /\ IndexUnchanged
        ELSE /\ books' = RemoveAt(books, i)
             /\ Reindexed(books')
             /\ last' = Plain("delete_book", TRUE)
  /\ UNCHANGED <<members, transactions, admin_saves, stock_history>>
  /\ ObserversUnchanged
  /\ ClockUnchanged
  /\ ThreadsUnchanged
  /\ FastCacheUnchanged
  /\ book_cache_clear(last'.ok)
  /\ saved' = IF last'.ok THEN <<MemoryAfter>> ELSE saved
  /\ published' = <<>>

RECURSIVE DeleteEachFirstWithId(_, _)
\* for book in books_to_delete: del the first b of bs with b["id"] == book["id"]
DeleteEachFirstWithId(bs, ids) ==
  IF ids = <<>> THEN bs
  ELSE LET i == FirstPos(bs, LAMBDA b : b.id = Head(ids))
       IN DeleteEachFirstWithId(IF i = 0 THEN bs ELSE RemoveAt(bs, i), Tail(ids))

\* delete_selected_books: looks every id up in the index and sorts the books
\* found into books_with_issues and books_to_delete, then deletes by id
delete_selected_books(book_ids) ==
  /\ LET found == SelectSeq(book_ids, LAMBDA k : get_by_id(k) # None)
         OnLoan(k) == LET b == Deref(books, get_by_id(k))
                      IN b.available_copies < b.total_copies
         books_with_issues == SelectSeq(found, OnLoan)
         books_to_delete == SelectSeq(found, LAMBDA k : ~OnLoan(k))
     IN IF books_with_issues # <<>> /\ books_to_delete = <<>>
        THEN /\ last' = Outcome("delete_selected_books", FALSE, 0,
                                books_to_delete, books_with_issues)
             /\ UNCHANGED books
             /\ IndexUnchanged
        ELSE /\ books' = DeleteEachFirstWithId(books, books_to_delete)
             /\ Reindexed(books')
             /\ last' = Outcome("delete_selected_books", books_to_delete # <<>>, 0,
                                books_to_delete, books_with_issues)
  /\ UNCHANGED <<members, transactions, admin_saves, stock_history>>
  /\ ObserversUnchanged
  /\ ClockUnchanged
  /\ ThreadsUnchanged
  /\ FastCacheUnchanged
  /\ book_cache_clear(last'.ok \/ last'.rejected = <<>>)
  /\ saved' = IF last'.ok \/ last'.rejected = <<>> THEN <<MemoryAfter>> ELSE saved
  /\ published' = <<>>

\* --------------------------------------------------------- ExcelManager
\* the copies cell of a sheet row: int(copies_val) if copies_val > 0 else 1
copies_of(row) == IF row.copies > 0 THEN row.copies ELSE 1

\* ExcelManager.import_from_excel: the catalog is cleared and one new book is
\* appended per sheet row, numbered from 1; the lookup index is not touched
import_from_excel(sheet) ==
  [ok |-> Len(sheet) > 0,
   books |-> [n \in DOMAIN sheet |->
                [ref |-> n, id |-> n, title |-> sheet[n].title, isbn |-> IsbnStr(n),
                 total_copies |-> copies_of(sheet[n]),
                 available_copies |-> copies_of(sheet[n])]]]

\* import_from_excel_with_spinner with _import_from_excel_thread and, after a
\* successful import, _import_from_excel_complete, which rebuilds the index.
\* The sheet has at least one row.
import_from_excel_with_spinner(sheet) ==
  /\ sheet # <<>>
  /\ books' = import_from_excel(sheet).books
  /\ Reindexed(books')
  /\ last' = Plain("import_from_excel_with_spinner", TRUE)
  /\ UNCHANGED <<members, transactions, admin_saves, stock_history>>
  /\ ObserversUnchanged
  /\ ClockUnchanged
  /\ ThreadsUnchanged
  /\ FastCacheUnchanged
  /\ book_cache_clear(TRUE)
  /\ saved' = <<MemoryAfter>>
  /\ published' = [n \in DOMAIN books' |->
                     change_event("BOOK_IMPORTED", books'[n].id, MemoryAfter, MemoryAfter)]

\* auto_import_from_excel, the last step of LibraryManagementSystem.__init__
\* when Department_library_books.xlsx exists: imports if the catalog is empty
auto_import_from_excel(sheet) ==
  /\ last.op = "init"
  /\ IF Len(books) = 0
     THEN /\ books' = import_from_excel(sheet).books
          /\ last' = Plain("auto_import_from_excel", import_from_excel(sheet).ok)
     ELSE /\ UNCHANGED books
          /\ last' = Plain("auto_import_from_excel", FALSE)
  /\ IndexUnchanged
  /\ UNCHANGED <<members, transactions, admin_saves, stock_history>>
  /\ ObserversUnchanged
  /\ ClockUnchanged
  /\ ThreadsUnchanged
  /\ FastCacheUnchanged
  /\ CacheUnchanged
  /\ saved' = IF Len(books) = 0 THEN <<MemoryAfter>> ELSE saved
  /\ published' = <<>>

\* ----------------------------------------------- StockManagementSystem
\* the audit record restock_book and bulk_restock_from_excel append
history_record(hist, book, action, quantity) ==
  [history_id |-> Len(hist) + 1, book_id |-> book.id, action |-> action,
   quantity_added |-> quantity,
   old_stock |-> book.available_copies,
   new_stock |-> book.available_copies + quantity,
   old_total |-> book.total_copies,
   new_total |-> book.total_copies + quantity]

\* restock_book that puts the audit record in front of the trail
restock_book_prepend(bs, hist, book_id, quantity) ==
  LET i == FirstPos(bs, LAMBDA b : b.id = book_id)
  IN IF i = 0 THEN [ok |-> FALSE, books |-> bs, stock_history |-> hist]
     ELSE [ok |-> TRUE,
           books |-> [bs EXCEPT ![i].available_copies = @ + quantity,
                                ![i].total_copies = @ + quantity],
           stock_history |-> <<history_record(hist, bs[i], "restock", quantity)>> \o hist]

\* restock_book that leaves total_copies as it was
restock_book_available_only(bs, hist, book_id, quantity) ==
  LET i == FirstPos(bs, LAMBDA b : b.id = book_id)
  IN IF i = 0 THEN [ok |-> FALSE, books |-> bs, stock_history |-> hist]
     ELSE [ok |-> TRUE,
           books |-> [bs EXCEPT ![i].available_copies = @ + quantity],
           stock_history |-> Append(hist, history_record(hist, bs[i], "restock", quantity))]

\* restock_book: adds quantity to both counts of the first book with this id
\* and appends one audit record; the quantity is not examined
restock_book(bs, hist, book_id, quantity) ==
  LET i == FirstPos(bs, LAMBDA b : b.id = book_id)
  IN IF i = 0 THEN [ok |-> FALSE, books |-> bs, stock_history |-> hist]
     ELSE [ok |-> TRUE,
           books |-> [bs EXCEPT ![i].available_copies = @ + quantity,
                                ![i].total_copies = @ + quantity],
           stock_history |-> Append(hist, history_record(hist, bs[i], "restock", quantity))]

\* restock_single_book_dialog.perform_restock on the book chosen in the
\* combobox: rejects a quantity <= 0, then restock_book by id
perform_restock(i, quantity) ==
  /\ i \in DOMAIN books
  /\ Len(stock_history) < MaxHistory
  /\ books[i].total_copies + quantity <= MaxCopies
  /\ LET r == restock_book(books, stock_history, books[i].id, quantity)
     IN IF quantity <= 0
        THEN /\ last' = Plain("perform_restock", FALSE)
             /\ UNCHANGED <<books, stock_history>>
        ELSE /\ books' = r.books
             /\ stock_history' = r.stock_history
             /\ last' = Plain("perform_restock", r.ok)
  /\ IndexUnchanged
  /\ UNCHANGED <<members, transactions, admin_saves>>
  /\ ObserversUnchanged
  /\ ClockUnchanged
  /\ ThreadsUnchanged
  /\ FastCacheUnchanged
  /\ book_cache_clear(last'.ok)
  /\ saved' = IF last'.ok THEN <<MemoryAfter>> ELSE saved
  /\ published' = IF last'.ok
                  THEN <<change_event("BOOK_STOCK_UPDATED", books[i].id,
                                      MemoryAfter, MemoryAfter)>>
                  ELSE <<>>

RECURSIVE bulk_restock_rows(_, _)
\* a row loop that stops at the first row whose isbn matches no book
bulk_restock_rows_abort(st, rows) ==
  IF rows = <<>> THEN st
  ELSE LET row == Head(rows)
           i == FirstPos(st.books, LAMBDA b : b.isbn = row.isbn)
       IN IF i = 0
          THEN [st EXCEPT !.skipped_books = Append(@, row.isbn)]
          ELSE bulk_restock_rows(
                 [st EXCEPT
                    !.books[i].available_copies = @ + row.quantity,
                    !.books[i].total_copies = @ + row.quantity,
                    !.stock_history = Append(@, history_record(st.stock_history,
                                                st.books[i], "bulk_restock", row.quantity)),
                    !.restocked_books = Append(@, st.books[i].title)],
                 Tail(rows))

\* the row loop of bulk_restock_from_excel: the first book whose isbn equals
\* the row's gets the row's quantity added to both counts and an audit
\* record; a row that matches no book goes to skipped_books
bulk_restock_rows(st, rows) ==
  IF rows = <<>> THEN st
  ELSE LET row == Head(rows)
           i == FirstPos(st.books, LAMBDA b : b.isbn = row.isbn)
       IN bulk_restock_rows(
            IF i = 0
            THEN [st EXCEPT !.skipped_books = Append(@, row.isbn)]
            ELSE [st EXCEPT
                    !.books[i].available_copies = @ + row.quantity,
                    !.books[i].total_copies = @ + row.quantity,
                    !.stock_history = Append(@, history_record(st.stock_history,
                                                st.books[i], "bulk_restock", row.quantity)),
                    !.restocked_books = Append(@, st.books[i].title)],
            Tail(rows))

\* bulk_restock_from_excel on the parsed sheet
bulk_restock_from_excel(rows) ==
  /\ rows # <<>>
  /\ LET r == bulk_restock_rows([books |-> books, stock_history |-> stock_history,
                                restocked_books |-> <<>>, skipped_books |-> <<>>], rows)
     IN /\ Len(r.stock_history) <= MaxHistory
        /\ \A i \in DOMAIN r.books : r.books[i].total_copies <= MaxCopies
        /\ books' = r.books
        /\ stock_history' = r.stock_history
        /\ last' = Outcome("bulk_restock_from_excel", TRUE, 0,
                           r.restocked_books, r.skipped_books)
  /\ IndexUnchanged
  /\ UNCHANGED <<members, transactions, admin_saves>>
  /\ ObserversUnchanged
  /\ ClockUnchanged
  /\ ThreadsUnchanged
  /\ FastCacheUnchanged
  /\ book_cache_clear(last'.ok)
  /\ saved' = <<MemoryAfter>>
  /\ published' = [n \in DOMAIN books' |->
                     change_event("BOOK_STOCK_UPDATED", books'[n].id,
                                  MemoryAfter, MemoryAfter)]

\* get_book_stock_status: the status of the first book with this id
get_book_stock_status(bs, book_id) ==
  LET i == FirstPos(bs, LAMBDA b : b.id = book_id)
  IN IF i = 0 THEN "NOT FOUND"
     ELSE IF bs[i].available_copies <= 0 THEN "OUT OF STOCK"
     ELSE IF bs[i].available_copies <= LowStockThreshold THEN "LOW STOCK"
     ELSE "IN STOCK"

\* -------------------------------------------------------- MemberManager
\* "max_books": 5, the limit the issue form gives a student it registers
form_max_books == 5

\* add_member: id from the number of members, both counters at 0
add_member(name, max_books) ==
  /\ Len(members) < MaxMembers
  /\ members' = Append(members, [id |-> Len(members) + 1, name |-> name,
                                 max_books |-> max_books,
                                 current_borrowed |-> 0, total_borrowed |-> 0])
  /\ last' = Plain("add_member", TRUE)
  /\ UNCHANGED <<books, transactions, admin_saves, stock_history>>
  /\ IndexUnchanged
  /\ ObserversUnchanged
  /\ UNCHANGED <<now, fine>>
  /\ CacheUnchanged
  /\ saved' = <<MemoryAfter>>
  /\ published' = <<>>
  /\ ThreadsUnchanged
  /\ FastCacheUnchanged

\* update_borrow_count with the total lowered by a negative delta
update_borrow_count_signed(ms, member_id, delta) ==
  LET i == FirstPos(ms, LAMBDA m : m.id = member_id)
  IN IF i = 0 THEN ms
     ELSE [ms EXCEPT ![i].current_borrowed = Max(0, @ + delta),
                     ![i].total_borrowed = @ + delta]

\* update_borrow_count on the first member with this id
update_borrow_count(ms, member_id, delta) ==
  LET i == FirstPos(ms, LAMBDA m : m.id = member_id)
  IN IF i = 0 THEN ms
     ELSE [ms EXCEPT ![i].current_borrowed = Max(0, @ + delta),
                     ![i].total_borrowed = @ + (IF delta < 0 THEN -delta ELSE delta)]

\* a MemberManager.update_borrow_count call of its own: the counters of a
\* known member are changed and saved, an unknown id gives False
member_update_borrow_count(member_id, delta) ==
  /\ \A m \in DOMAIN members : members[m].total_borrowed < MaxBorrowed
  /\ members' = update_borrow_count(members, member_id, delta)
  /\ last' = Plain("update_borrow_count",
                   \E m \in DOMAIN members : members[m].id = member_id)
  /\ UNCHANGED <<books, transactions, admin_saves, stock_history>>
  /\ IndexUnchanged
  /\ ObserversUnchanged
  /\ UNCHANGED <<now, fine>>
  /\ CacheUnchanged
  /\ saved' = IF last'.ok THEN <<MemoryAfter>> ELSE saved
  /\ published' = <<>>
  /\ ThreadsUnchanged
  /\ FastCacheUnchanged

\* --------------------------------------------------- TransactionManager
\* the transaction dictionary both issue paths append
transaction(txs, book_id, member_id) ==
  [id |-> Len(txs) + 1, book_id |-> book_id, member_id |-> member_id,
   issue_date |-> Today, status |-> "issued"]

\* an issue that takes two copies
decrement_available_twice(bs, i) == [bs EXCEPT ![i].available_copies = @ - 2]

\* book["available_copies"] -= 1 on the book at position i
decrement_available(bs, i) == [bs EXCEPT ![i].available_copies = @ - 1]

\* issue_book: the book comes from the by_id index
issue_book(book_id, member_id) ==
  /\ Len(transactions) < MaxTx
  /\ LET ref == get_by_id(book_id)
     IN IF ref = None \/ Deref(books, ref).available_copies <= 0
        THEN /\ last' = Plain("issue_book", FALSE)
             /\ UNCHANGED <<books, members, transactions>>
        ELSE /\ books' = decrement_available(books, PosOfRef(books, ref))
             /\ members' = update_borrow_count(members, member_id, 1)
             /\ transactions' = Append(transactions,
                                       transaction(transactions, book_id, member_id))
             /\ last' = Plain("issue_book", TRUE)
  /\ IndexUnchanged
  /\ UNCHANGED <<admin_saves, stock_history>>
  /\ ObserversUnchanged
  /\ ClockUnchanged
  /\ ThreadsUnchanged
  /\ FastCacheUnchanged
  /\ book_cache_clear(last'.ok)
  /\ saved' = IF ~last'.ok THEN saved
              ELSE IF \E m \in DOMAIN members : members[m].id = member_id
              THEN <<save_data(books', members', transactions), MemoryAfter>>
              ELSE <<MemoryAfter>>
  /\ published' = <<>>

\* ------------------------------------------- LibraryManagementSystem
\* _perform_book_issue_save (the issue form): the book comes from the
\* by_isbn index, else from the title index; an unknown book and an unknown
\* student are created on the spot
_perform_book_issue_save(student_name, book_name, isbn_code) ==
  /\ Len(transactions) < MaxTx
  /\ LET by_code == get_by_isbn(isbn_code)
         existing_book == IF by_code # None THEN by_code ELSE get_by_title(book_name)
         m == FirstPos(members, LAMBDA x : Lower(x.name) = Lower(student_name))
         members1 == IF m = 0
                     THEN Append(members, [id |-> Len(members) + 1, name |-> student_name,
                                           max_books |-> form_max_books,
                                           current_borrowed |-> 0, total_borrowed |-> 0])
                     ELSE members
         mpos == IF m = 0 THEN Len(members1) ELSE m
         member_id == members1[mpos].id
         new_book == [ref |-> NewRef(books), id |-> Len(books) + 1, title |-> book_name,
                      isbn |-> isbn_code, total_copies |-> 1, available_copies |-> 0]
         book_id == IF existing_book = None THEN new_book.id
                    ELSE Deref(books, existing_book).id
         tx == transaction(transactions, book_id, member_id)
         books1 == IF existing_book = None THEN Append(books, new_book)
                   ELSE decrement_available(books, PosOfRef(books, existing_book))
         \* the stock change is announced as soon as the copy is taken
         events == IF existing_book = None THEN <<>>
                   ELSE <<change_event("BOOK_STOCK_UPDATED", book_id,
                                       save_data(books1, members1, transactions), files)>>
     IN /\ existing_book = None => Len(books) < MaxBooks
        /\ IF existing_book # None /\ Deref(books, existing_book).available_copies <= 0
           THEN /\ last' = Plain("_perform_book_issue_save", FALSE)
                /\ UNCHANGED <<books, members, transactions, admin_saves>>
                /\ IndexUnchanged
                /\ published' = <<>>
           ELSE \E raised \in (IF existing_book = None THEN {FALSE} ELSE Raises) :
                  /\ books' = books1
                  /\ published' = events
                  /\ IF raised
                     THEN \* _save_book_issue_thread catches what the observer raised
                          /\ members' = members1
                          /\ UNCHANGED <<transactions, admin_saves>>
                          /\ IndexUnchanged
                          /\ last' = Plain("_perform_book_issue_save", FALSE)
                     ELSE /\ members' = [members1 EXCEPT ![mpos].current_borrowed = @ + 1,
                                                         ![mpos].total_borrowed = @ + 1]
                          /\ transactions' = Append(transactions, tx)
                          /\ admin_saves' =
                               Append(admin_saves,
                                      [transaction_id |-> tx.id, student_name |-> student_name,
                                       book_id |-> book_id, book_title |-> book_name,
                                       issue_date |-> tx.issue_date, status |-> "issued"])
                          /\ Reindexed(books')
                          /\ last' = Plain("_perform_book_issue_save", TRUE)
  /\ UNCHANGED <<stock_history>>
  /\ ObserversUnchanged
  /\ ClockUnchanged
  /\ ThreadsUnchanged
  /\ FastCacheUnchanged
  /\ book_cache_clear(last'.ok)
  /\ saved' = IF last'.ok THEN <<MemoryAfter>> ELSE saved

\* refresh_admin_borrowers: the values of the tree row shown for an
\* admin_saves row (student, phone, title, author, issue date, due date,
\* days left, status)
tree_values(row) ==
  <<row.student_name, "N/A", row.book_title, "author", row.issue_date,
    "due", "days", "Active">>

\* admin_active_borrowers.mark_as_returned on the selected tree row k:
\* student_name = values[0], book_title = values[4]
mark_as_returned(k) ==
  /\ k \in DOMAIN admin_saves
  /\ admin_saves[k].status = "issued"
  /\ LET values == tree_values(admin_saves[k])
         student_name == values[1]
         book_title == values[5]
         i == FirstPos(books, LAMBDA b : b.title = book_title)
     IN /\ i # 0 => books[i].available_copies <= MaxCopies
        /\ admin_saves' =
             [j \in DOMAIN admin_saves |->
                IF /\ admin_saves[j].student_name = student_name
                   /\ admin_saves[j].book_title = book_title
                   /\ admin_saves[j].status = "issued"
                THEN [admin_saves[j] EXCEPT !.status = "returned"]
                ELSE admin_saves[j]]
        /\ books' = IF i = 0 THEN books
                    ELSE [books EXCEPT ![i].available_copies = @ + 1]
        /\ published' = IF i = 0 THEN <<>>
                        ELSE <<change_event("BOOK_STOCK_UPDATED", books[i].id,
                                            save_data(books', members, transactions), files)>>
        /\ \E raised \in (IF i = 0 THEN {FALSE} ELSE Raises) :
             /\ saved' = IF raised THEN saved ELSE <<save_data(books', members, transactions)>>
             /\ last' = Outcome("mark_as_returned", ~raised, admin_saves[k].transaction_id,
                                <<>>, <<>>)
  /\ IndexUnchanged
  /\ UNCHANGED <<members, transactions, stock_history>>
  /\ ObserversUnchanged
  /\ ClockUnchanged
  /\ ThreadsUnchanged
  /\ FastCacheUnchanged
  /\ book_cache_clear(books' # books)

\* ------------------------- _perform_book_issue_save in background threads
\* save_book_issue_with_spinner: starts a _save_book_issue_thread on the
\* fields of the form; the statements of the thread follow, in the pieces
\* between which another thread can run
save_book_issue_with_spinner(t, student_name, book_name, isbn_code) ==
  /\ threads[t].pc = "idle"
  /\ threads' = [threads EXCEPT ![t] = [idle EXCEPT !.pc = "lookup",
                                                    !.student_name = student_name,
                                                    !.book_name = book_name,
                                                    !.isbn_code = isbn_code]]
  /\ last' = Plain("save_book_issue_with_spinner", TRUE)
  /\ LedgerUnchanged
  /\ ObserversUnchanged
  /\ UNCHANGED <<now, fine>>
  /\ CacheUnchanged
  /\ FilesUnchanged
  /\ FastCacheUnchanged

\* the book lookup and the out-of-stock check
issue_thread_lookup(t) ==
  /\ threads[t].pc = "lookup"
  /\ LET by_code == get_by_isbn(threads[t].isbn_code)
         existing_book == IF by_code # None THEN by_code
                          ELSE get_by_title(threads[t].book_name)
     IN IF existing_book # None /\ Deref(books, existing_book).available_copies <= 0
        THEN /\ threads' = [threads EXCEPT ![t].pc = "done"]
             /\ last' = Plain("_perform_book_issue_save", FALSE)
        ELSE /\ threads' = [threads EXCEPT ![t].pc = "member",
                                            ![t].existing_book = existing_book]
             /\ UNCHANGED last
  /\ LedgerUnchanged
  /\ ObserversUnchanged
  /\ UNCHANGED <<now, fine>>
  /\ CacheUnchanged
  /\ FilesUnchanged
  /\ FastCacheUnchanged

\* the member lookup by name; an unknown student becomes a member
issue_thread_member(t) ==
  /\ threads[t].pc = "member"
  /\ LET m == FirstPos(members, LAMBDA x : Lower(x.name) = Lower(threads[t].student_name))
     IN /\ members' = IF m = 0
                      THEN Append(members, [id |-> Len(members) + 1,
                                            name |-> threads[t].student_name,
                                            max_books |-> form_max_books,
                                           current_borrowed |-> 0, total_borrowed |-> 0])
                      ELSE members
        /\ threads' = [threads EXCEPT ![t].pc = "stock",
                                       ![t].member = IF m = 0 THEN Len(members) + 1 ELSE m]
  /\ UNCHANGED <<books, transactions, admin_saves, stock_history, last>>
  /\ IndexUnchanged
  /\ ObserversUnchanged
  /\ UNCHANGED <<now, fine>>
  /\ CacheUnchanged
  /\ FilesUnchanged
  /\ FastCacheUnchanged

\* an unknown book is created with no copy available; a known book gives
\* one copy if it has one now, and the stock change is announced
issue_thread_stock(t) ==
  /\ threads[t].pc = "stock"
  /\ LET existing_book == threads[t].existing_book
         i == PosOfRef(books, existing_book)
     IN IF existing_book = None
        THEN /\ Len(books) < MaxBooks
             /\ books' = Append(books, [ref |-> NewRef(books), id |-> Len(books) + 1,
                                        title |-> threads[t].book_name,
                                        isbn |-> threads[t].isbn_code,
                                        total_copies |-> 1, available_copies |-> 0])
             /\ threads' = [threads EXCEPT ![t].pc = "record",
                                            ![t].book_id = Len(books) + 1]
             /\ published' = <<>>
        ELSE /\ books' = IF books[i].available_copies > 0
                         THEN decrement_available(books, i) ELSE books
             /\ threads' = [threads EXCEPT ![t].pc = "record", ![t].book_id = books[i].id]
             /\ published' = IF books[i].available_copies > 0
                             THEN <<change_event("BOOK_STOCK_UPDATED", books[i].id,
                                                 save_data(books', members, transactions),
                                                 files)>>
                             ELSE <<>>
  /\ UNCHANGED <<members, transactions, admin_saves, stock_history, last, saved>>
  /\ IndexUnchanged
  /\ ObserversUnchanged
  /\ UNCHANGED <<now, fine>>
  /\ CacheUnchanged
  /\ FastCacheUnchanged

\* the transaction is numbered and appended, the member counters are raised
issue_thread_record(t) ==
  /\ threads[t].pc = "record"
  /\ Len(transactions) < MaxTx
  /\ LET mpos == threads[t].member
         tx == transaction(transactions, threads[t].book_id, members[mpos].id)
     IN /\ members' = [members EXCEPT ![mpos].current_borrowed = @ + 1,
                                       ![mpos].total_borrowed = @ + 1]
        /\ transactions' = Append(transactions, tx)
        /\ threads' = [threads EXCEPT ![t].pc = "save", ![t].transaction_id = tx.id]
  /\ UNCHANGED <<books, admin_saves, stock_history, last>>
  /\ IndexUnchanged
  /\ ObserversUnchanged
  /\ UNCHANGED <<now, fine>>
  /\ CacheUnchanged
  /\ FilesUnchanged
  /\ FastCacheUnchanged

\* the admin save, the cache clear, the index rebuild and save_data
issue_thread_save(t) ==
  /\ threads[t].pc = "save"
  /\ admin_saves' = Append(admin_saves,
                           [transaction_id |-> threads[t].transaction_id,
                            student_name |-> threads[t].student_name,
                            book_id |-> threads[t].book_id,
                            book_title |-> threads[t].book_name,
                            issue_date |-> Today, status |-> "issued"])
  /\ book_cache_clear(TRUE)
  /\ Reindexed(books)
  /\ saved' = <<save_data(books, members, transactions)>>
  /\ threads' = [threads EXCEPT ![t].pc = "done"]
  /\ last' = Plain("_perform_book_issue_save", TRUE)
  /\ UNCHANGED <<books, members, transactions, stock_history, published>>
  /\ ObserversUnchanged
  /\ UNCHANGED <<now, fine>>
  /\ FastCacheUnchanged

\* the selections handed to delete_selected_books
Selections == SeqsUpTo(BookIds, 2)

\* the rows of a restock sheet
SheetRows ==
  {[isbn |-> IsbnStr(1), quantity |-> 1],
   [isbn |-> IsbnStr(1), quantity |-> -1],
   [isbn |-> "X-404", quantity |-> 1]}
\* the parsed sheets handed to bulk_restock_from_excel
Sheets == SeqsUpTo(SheetRows, MaxRows)

\* ------------------------------------------------------ specifications
\* the catalog under the add / edit dialogs, both delete operations and
\* issue_book
Next ==
  \/ \E c \in 0 .. MaxCopies : save_book("Dune", c)
  \/ \E i \in 1 .. MaxBooks, c \in 0 .. MaxCopies : edit_book_dialog(i, "Dune", c)
  \/ \E k \in BookIds : delete_book(k)
  \/ \E ids \in Selections : delete_selected_books(ids)
  \/ \E k \in BookIds : issue_book(k, 1)

Spec == Init /\ [][Next]_vars

\* both issue paths over a catalog in which books come and go
NextIssue ==
  \/ \E c \in 0 .. MaxCopies : save_book("Dune", c)
  \/ \E k \in BookIds : delete_book(k)
  \/ \E k \in BookIds : issue_book(k, 1)
  \/ \E c \in IsbnInputs : _perform_book_issue_save("Ann", "Dune", c)

SpecIssue == Init /\ [][NextIssue]_vars

\* restocking, single and bulk, over a catalog with books on loan
NextStock ==
  \/ \E c \in 0 .. 1 : save_book("Dune", c)
  \/ issue_book(1, 1)
  \/ \E i \in 1 .. MaxBooks, q \in Quantities : perform_restock(i, q)
  \/ \E rows \in Sheets : bulk_restock_from_excel(rows)

SpecStock == Init /\ [][NextStock]_vars

\* the issue form and the Active Borrowers screen
NextReturn ==
  \/ \E t \in Titles, c \in 0 .. MaxCopies : save_book(t, c)
  \/ \E n \in Names, t \in Titles, c \in IsbnInputs : _perform_book_issue_save(n, t, c)
  \/ \E k \in 1 .. MaxTx : mark_as_returned(k)

SpecReturn == Init /\ [][NextReturn]_vars

\* the rows of Department_library_books.xlsx
ImportRows == [title : {"Dune"}, copies : 0 .. MaxCopies]
\* the sheets an import reads
ImportSheets == SeqsUpTo(ImportRows, MaxBooks)

\* the catalog under Excel imports, at start-up and from the menu
NextImport ==
  \/ \E sheet \in ImportSheets : auto_import_from_excel(sheet)
  \/ \E sheet \in ImportSheets : import_from_excel_with_spinner(sheet)
  \/ \E c \in 0 .. MaxCopies : save_book("Dune", c)
  \/ \E k \in BookIds : delete_book(k)
  \/ \E k \in BookIds : issue_book(k, 1)
  \/ get_statistics

SpecImport == Init /\ [][NextImport]_vars

\* the observer list of book_observable under its three operations
\* the counts handed to update_book_stock
StockData == [available_copies : 0 .. 1, total_copies : {1}]

\* the handlers that publish a stock change before they are done, with
\* observers registered next to UIUpdater
NextPublish ==
  \/ \E o \in Observers : register_observer(o)
  \/ save_book("Dune", 1)
  \/ \E k \in BookIds, d \in StockData : update_book_stock(k, d)
  \/ \E c \in IsbnInputs : _perform_book_issue_save("Ann", "Dune", c)
  \/ \E k \in 1 .. MaxTx : mark_as_returned(k)

SpecPublish == Init /\ [][NextPublish]_vars

\* two issue requests of the form at a time
NextThreads ==
  \/ save_book("Dune", 1)
  \/ \E t \in Threads, name \in Names :
       save_book_issue_with_spinner(t, name, "Dune", IsbnStr(1))
  \/ \E t \in Threads : issue_thread_lookup(t)
  \/ \E t \in Threads : issue_thread_member(t)
  \/ \E t \in Threads : issue_thread_stock(t)
  \/ \E t \in Threads : issue_thread_record(t)
  \/ \E t \in Threads : issue_thread_save(t)

SpecThreads == Init /\ [][NextThreads]_vars

\* any sequence of get, set and clear calls on one cache
NextCache ==
  \/ \E key \in CacheKeys : get(key)
  \/ \E key \in CacheKeys : set(key, "value")
  \/ clear

SpecCache == Init /\ [][NextCache]_vars

\* the member register under issues, returns and counter updates
NextMembers ==
  \/ add_member("Bob", 1)
  \/ save_book("Dune", MaxCopies)
  \/ issue_book(1, 1)
  \/ _perform_book_issue_save("Ann", "Dune", IsbnStr(1))
  \/ mark_as_returned(1)
  \/ \E m \in 1 .. 2, delta \in {1, -1} : member_update_borrow_count(m, delta)

SpecMembers == Init /\ [][NextMembers]_vars

NextObserver ==
  \/ \E o \in Observers : register_observer(o)
  \/ \E o \in Observers : unregister_observer(o)
  \/ \E t \in ChangeTypes, k \in BookIds : notify_observers(t, k)

SpecObserver == Init /\ [][NextObserver]_vars

\* due dates handed to calculate_fine: days of the run and a malformed one
DueDates == {DateTable[d] : d \in 1 .. (MaxDays + 1)} \cup {"N/A"}

\* fines evaluated while time passes
NextFine ==
  \/ Tick
  \/ \E d \in DueDates : evaluate_fine(d)

SpecFine == Init /\ [][NextFine]_vars

\* ----------------------------------------------------------- properties
\* the loan transactions in status 'issued' that name the book id k
IssuedFor(k) ==
  {t \in DOMAIN transactions :
     transactions[t].status = "issued" /\ transactions[t].book_id = k}

\* C1: every book in the catalog has 0 <= available_copies <= total_copies.
C1_CopiesWithinTotal ==
  \A i \in DOMAIN books :
    /\ 0 <= books[i].available_copies
    /\ books[i].available_copies <= books[i].total_copies

\* C2: for every book, total_copies - available_copies is the number of
\* 'issued' loan transactions that name its id.
C2_CopiesOutMatchIssuedLoans ==
  \A i \in DOMAIN books :
    books[i].total_copies - books[i].available_copies
      = Cardinality(IssuedFor(books[i].id))

\* C3: neither delete operation removes a book that has copies on loan (the
\* record stays in the catalog as it was), and delete_book removes the book
\* it names when all its copies are in.
C3_DeleteRefusesBooksOnLoan ==
  [][/\ last'.op \in {"delete_book", "delete_selected_books"} =>
          \A i \in DOMAIN books :
            books[i].available_copies < books[i].total_copies =>
              \E j \in DOMAIN books' : books'[j] = books[i]
     /\ \A k \in BookIds :
          LET i == FirstPos(books, LAMBDA b : b.id = k)
          IN (delete_book(k) /\ i # 0 /\ books[i].available_copies = books[i].total_copies)
               => \A j \in DOMAIN books' : books'[j].ref # books[i].ref
    ]_vars

\* the last element of a non-empty sequence
Last(s) == s[Len(s)]

\* C4: a successful issue of a book of the catalog lowers that book's
\* available_copies by exactly 1, leaves its total_copies and every other
\* book as they were, and appends exactly one transaction in status 'issued'
\* that names that book and the member.
C4_IssueTakesOneCopy ==
  [][/\ \A k \in BookIds, m \in MemberIds :
          (issue_book(k, m) /\ last'.ok) =>
            LET i == PosOfRef(books, get_by_id(k))
            IN /\ Len(books') = Len(books)
               /\ books'[i].available_copies = books[i].available_copies - 1
               /\ books'[i].total_copies = books[i].total_copies
               /\ \A j \in DOMAIN books : j # i => books'[j] = books[j]
               /\ Len(transactions') = Len(transactions) + 1
               /\ SubSeq(transactions', 1, Len(transactions)) = transactions
               /\ Last(transactions').status = "issued"
               /\ Last(transactions').book_id = books[i].id
               /\ Last(transactions').member_id = m
     /\ \A n \in Names, t \in Titles, c \in IsbnInputs :
          (_perform_book_issue_save(n, t, c) /\ last'.ok /\ Len(books') = Len(books)) =>
            \E i \in DOMAIN books :
               /\ books[i].isbn = c \/ Lower(books[i].title) = Lower(t)
               /\ books'[i].available_copies = books[i].available_copies - 1
               /\ books'[i].total_copies = books[i].total_copies
               /\ \A j \in DOMAIN books : j # i => books'[j] = books[j]
               /\ Len(transactions') = Len(transactions) + 1
               /\ SubSeq(transactions', 1, Len(transactions)) = transactions
               /\ Last(transactions').status = "issued"
               /\ Last(transactions').book_id = books[i].id
               /\ \E x \in DOMAIN members' :
                    /\ members'[x].id = Last(transactions').member_id
                    /\ Lower(members'[x].name) = Lower(n)
    ]_vars

\* C4 witness: an issue has just succeeded on a book that was in the catalog
\* with two copies, one of which is now out.
C4_Witness ==
  /\ last.op \in {"issue_book", "_perform_book_issue_save"}
  /\ last.ok
  /\ transactions # <<>>
  /\ \E i \in DOMAIN books :
       /\ books[i].total_copies = 2
       /\ books[i].available_copies = 1
       /\ Last(transactions).book_id = books[i].id

\* C5: an issue of a book whose available_copies is positive succeeds and
\* takes one copy, so a book with n copies available takes n issues in a row;
\* an issue of a book whose available_copies is <= 0 fails, appends no
\* transaction, changes no book and no member, and get_book_stock_status
\* then reports the book OUT OF STOCK.
C5_IssueUntilOutOfStock ==
  [][\A k \in BookIds, m \in MemberIds :
       LET ref == get_by_id(k)
           i == PosOfRef(books, ref)
       IN (issue_book(k, m) /\ ref # None) =>
            IF books[i].available_copies > 0
            THEN /\ last'.ok
                 /\ books'[i].available_copies = books[i].available_copies - 1
            ELSE /\ ~last'.ok
                 /\ UNCHANGED <<books, members, transactions>>
                 /\ get_book_stock_status(books', k) = "OUT OF STOCK"
    ]_vars

\* the admin_saves row of the loan transaction tx
LoanRow(tx) == admin_saves[FirstPos(admin_saves, LAMBDA r : r.transaction_id = tx)]

\* C6: marking an issued loan as returned raises the available_copies of
\* the loan's own book by exactly 1, to at most its total_copies.
C6_ReturnRestoresOneCopy ==
  [][last'.op = "mark_as_returned" =>
       \E i \in DOMAIN books :
         /\ books[i].id = LoanRow(last'.tx).book_id
         /\ books'[i].available_copies = books[i].available_copies + 1
         /\ books'[i].available_copies <= books'[i].total_copies
    ]_vars

\* C7: a return invoked again for the loan that was just returned fails and
\* leaves every book's available_copies as it was.
C7_SecondReturnChangesNothing ==
  [][(/\ last.op = "mark_as_returned"
      /\ last'.op = "mark_as_returned"
      /\ last'.tx = last.tx) =>
       /\ ~last'.ok
       /\ \A i \in DOMAIN books :
            books'[i].available_copies = books[i].available_copies
    ]_vars

\* C8: restock_book with a quantity above zero adds the quantity to both
\* counts of the book with that id, changes no other book, and appends one
\* audit record holding the quantity and the counts before and after.
C8_RestockAddsToBothCounts ==
  [][\A i \in 1 .. (MaxBooks + 1), q \in Quantities :
       (perform_restock(i, q) /\ q > 0) =>
         LET t == FirstPos(books, LAMBDA b : b.id = books[i].id)
             rec == Last(stock_history')
         IN /\ Len(books') = Len(books)
            /\ books'[t].available_copies = books[t].available_copies + q
            /\ books'[t].total_copies = books[t].total_copies + q
            /\ \A j \in DOMAIN books : j # t => books'[j] = books[j]
            /\ Len(stock_history') = Len(stock_history) + 1
            /\ SubSeq(stock_history', 1, Len(stock_history)) = stock_history
            /\ rec.book_id = books[i].id
            /\ rec.quantity_added = q
            /\ rec.old_stock = books[t].available_copies
            /\ rec.new_stock = books[t].available_copies + q
            /\ rec.old_total = books[t].total_copies
            /\ rec.new_total = books[t].total_copies + q
    ]_vars

C8_Witness ==
  /\ last.op = "perform_restock"
  /\ last.ok
  /\ Len(books) = 2
  /\ stock_history # <<>>
  /\ Last(stock_history).action = "restock"
  /\ Last(stock_history).quantity_added = 1
  /\ Last(stock_history).new_total = 2
  /\ \E i \in DOMAIN books :
       books[i].id = Last(stock_history).book_id /\ books[i].total_copies = 2

\* the rows of a sheet whose quantity is above zero
PositiveRows(rows) == SelectSeq(rows, LAMBDA r : r.quantity > 0)

\* C9: a quantity of zero or less is rejected, by restock_book and for
\* every row of a bulk restock: the counts stay as they were and no audit
\* record is written for it.
C9_NonPositiveQuantityRejected ==
  [][/\ \A i \in 1 .. (MaxBooks + 1), q \in Quantities :
          (perform_restock(i, q) /\ q <= 0) => UNCHANGED <<books, stock_history>>
     /\ \A rows \in Sheets :
          bulk_restock_from_excel(rows) =>
            LET r == bulk_restock_rows([books |-> books, stock_history |-> stock_history,
                                       restocked_books |-> <<>>, skipped_books |-> <<>>],
                                      PositiveRows(rows))
            IN books' = r.books /\ stock_history' = r.stock_history
    ]_vars

RECURSIVE QuantityFor(_, _)
\* the sum of the quantities of the rows with this isbn
QuantityFor(rows, isbn) ==
  IF rows = <<>> THEN 0
  ELSE (IF Head(rows).isbn = isbn THEN Head(rows).quantity ELSE 0)
       + QuantityFor(Tail(rows), isbn)

\* the rows whose isbn no book has
UnknownRows(rows) ==
  SelectSeq(rows, LAMBDA r : FirstPos(books, LAMBDA b : b.isbn = r.isbn) = 0)

OnLoanAt(bs, i) == bs[i].total_copies - bs[i].available_copies

\* C11: an update whose new total_copies is lower than the number of copies
\* on loan of the book it would change (the first book with the id) is
\* rejected and leaves the catalog as it was.
C11_UpdateBelowLoansRejected ==
  [][\A i \in 1 .. (MaxBooks + 1), c \in 0 .. (MaxCopies + 1) :
       edit_book_dialog(i, "Dune", c) =>
         LET t == FirstPos(books, LAMBDA b : b.id = books[i].id)
         IN c < OnLoanAt(books, t) => (~last'.ok /\ books' = books)
    ]_vars

\* C12: an update that raises total_copies of a book by d > 0 raises its
\* available_copies by d as well, so the copies on loan stay the same.
C12_IncreaseFlowsToAvailable ==
  [][\A i \in 1 .. (MaxBooks + 1), c \in 0 .. (MaxCopies + 1) :
       edit_book_dialog(i, "Dune", c) =>
         LET t == FirstPos(books, LAMBDA b : b.id = books[i].id)
         IN (last'.ok /\ c > books[t].total_copies) =>
              /\ books'[t].total_copies = c
              /\ books'[t].available_copies =
                   books[t].available_copies + (c - books[t].total_copies)
              /\ OnLoanAt(books', t) = OnLoanAt(books, t)
    ]_vars

\* the set of elements of a sequence
Elems(s) == {s[i] : i \in DOMAIN s}

\* C13: delete_selected_books removes exactly the listed books that have no
\* copy on loan (available_copies not below total_copies), keeps every
\* listed book with copies on loan as it was and reports it as blocked, and
\* leaves the books not listed alone.
C13_DeleteSelectedPartialSuccess ==
  [][\A ids \in Selections :
       delete_selected_books(ids) =>
         LET Listed(b) == b.id \in Elems(ids)
             AllIn(b) == b.available_copies >= b.total_copies
         IN /\ books' = SelectSeq(books, LAMBDA b : ~(Listed(b) /\ AllIn(b)))
            /\ \A i \in DOMAIN books :
                 (Listed(books[i]) /\ ~AllIn(books[i])) =>
                   books[i].id \in Elems(last'.rejected)
    ]_vars

\* C14: no two books of the catalog have the same id.
C14_BookIdsUnique ==
  \A i, j \in DOMAIN books : books[i].id = books[j].id => i = j

\* C15: issue_book with a book id that no book has, or a member id that no
\* member has, fails and leaves books, members and transactions as they were.
C15_IssueUnknownIdsFails ==
  [][\A k \in BookIds, m \in MemberIds :
       (/\ issue_book(k, m)
        /\ \/ \A i \in DOMAIN books : books[i].id # k
           \/ \A j \in DOMAIN members : members[j].id # m) =>
         (~last'.ok /\ UNCHANGED <<books, members, transactions>>)
    ]_vars

\* C16: marking a loan as returned lowers the current_borrowed count of the
\* member who holds the loan by 1, but not below 0.
C16_ReturnLowersBorrowCount ==
  [][last'.op = "mark_as_returned" =>
       LET loan == transactions[last'.tx]
           j == FirstPos(members, LAMBDA m : m.id = loan.member_id)
       IN /\ j # 0
          /\ members'[j].current_borrowed = Max(0, members[j].current_borrowed - 1)
    ]_vars

\* C17: the stock audit trail only grows at its end: after every step the
\* records that were there are still there, in place and unmodified.
C17_AuditTrailAppendOnly ==
  [][/\ Len(stock_history') >= Len(stock_history)
     /\ SubSeq(stock_history', 1, Len(stock_history)) = stock_history
    ]_vars

C17_Witness ==
  /\ Len(stock_history) = 2
  /\ stock_history[1].action = "restock"
  /\ stock_history[2].action = "bulk_restock"
  /\ last.op = "bulk_restock_from_excel"

\* the audit records of the book with this id, in order
RecordsOf(book_id) == SelectSeq(stock_history, LAMBDA r : r.book_id = book_id)

\* C18: replaying a book's audit records gives its copy counts: every
\* record starts from the counts the previous record of the book left, and
\* the last record's new_stock / new_total are the book's current counts.
C18_AuditTrailReplays ==
  \A i \in DOMAIN books :
    LET recs == RecordsOf(books[i].id)
    IN recs # <<>> =>
         /\ \A n \in 1 .. (Len(recs) - 1) :
              /\ recs[n + 1].old_stock = recs[n].new_stock
              /\ recs[n + 1].old_total = recs[n].new_total
         /\ Last(recs).new_stock = books[i].available_copies
         /\ Last(recs).new_total = books[i].total_copies

\* how many entries of the sequence equal x
Count(s, x) == Cardinality({i \in DOMAIN s : s[i] = x})

DayOf(t) == t \div TicksPerDay

\* C20: for a due date, the fine is 0 while the day of evaluation is not
\* after the due day, otherwise it is the number of whole days overdue times
\* the daily rate; and a later evaluation for the same due date never gives
\* a smaller fine.
C20_FineMonotone ==
  [][fine'.due_date_str \in Elems(DateTable) =>
       LET due_day == CHOOSE d \in DOMAIN DateTable : DateTable[d] = fine'.due_date_str
       IN /\ DayOf(fine'.at) <= due_day => fine'.amount = 0
          /\ DayOf(fine'.at) > due_day =>
               fine'.amount = (DayOf(fine'.at) - due_day) * daily_fine
          /\ (fine.due_date_str = fine'.due_date_str /\ fine.at <= fine'.at) =>
               fine.amount <= fine'.amount
    ]_vars

C20_Witness ==
  /\ last.op = "calculate_fine"
  /\ fine.due_date_str = DateTable[2]
  /\ fine.at = midnight(4) + 1
  /\ fine.amount = 2 * daily_fine

\* C21: the by_id index maps exactly the ids of the books in the catalog,
\* each to a book of the catalog that has this id.
C21_IndexMatchesCatalog ==
  /\ DOMAIN by_id = {books[i].id : i \in DOMAIN books}
  /\ \A k \in DOMAIN by_id :
       \E i \in DOMAIN books : books[i].ref = by_id[k] /\ books[i].id = k

\* C23: a change event is published only after its mutation is committed:
\* when the observers get BOOK_STOCK_UPDATED, the handler's whole change is
\* already in memory and save_data has written it to the files
C23_PublishedAfterCommit ==
  \A n \in DOMAIN published :
    published[n].change_type = "BOOK_STOCK_UPDATED" =>
      /\ published[n].memory = save_data(books, members, transactions)
      /\ published[n].files = published[n].memory

\* C24: an observer that raises during a notification does not leave the
\* ledger inconsistent: after an issue through the form, a book that lost a
\* copy has its new 'issued' transaction, and after update_book_stock changed
\* a book the files hold what is in memory
C24_RaisingObserverLeavesLedgerConsistent ==
  [][/\ \A name \in Names, title \in Titles, code \in IsbnInputs :
          _perform_book_issue_save(name, title, code) =>
            \A i \in DOMAIN books :
              books'[i].available_copies < books[i].available_copies =>
                /\ Len(transactions') = Len(transactions) + 1
                /\ transactions'[Len(transactions')].book_id = books[i].id
                /\ transactions'[Len(transactions')].status = "issued"
     /\ \A k \in BookIds, d \in StockData :
          update_book_stock(k, d) =>
            (books' # books =>
               saved'[Len(saved')] = save_data(books', members', transactions'))
    ]_vars

\* C22: every operation that changes the catalog or a book's copy counts
\* clears the read cache before it returns, so no value cached before the
\* change is served after it: what get_statistics returns is always the
\* statistics of the catalog as it is at the call
C22_StatisticsNeverStale ==
  [][get_statistics => stats' = library_stats(books)]_vars

\* C25: persistence is the last step of issue_book: save_data runs only
\* after the copy decrement, the member counter update and the transaction
\* append, so no snapshot it writes holds the decremented available_copies
\* without the new 'issued' transaction
C25_IssueSavesLast ==
  (last.op = "issue_book" /\ last.ok) =>
    \A n \in DOMAIN saved :
      saved[n].books = books => saved[n].transactions = transactions

\* C26: issue requests are mutually exclusive: however the background
\* threads of two issue requests interleave, a book never has more 'issued'
\* transactions than copies taken from it, so a book with one available
\* copy is issued at most once
C26_IssueRequestsExclusive ==
  \A i \in DOMAIN books :
    Cardinality(IssuedFor(books[i].id)) <= books[i].total_copies - books[i].available_copies

\* C27: no operation removes a book from the catalog while it has copies on
\* loan, and an import does not replace it: after every step the catalog
\* still holds a book with that id and title that has its copies out
C27_BooksOnLoanStay ==
  [][\A i \in DOMAIN books :
       OnLoanAt(books, i) > 0 =>
         \E j \in DOMAIN books' :
           /\ books'[j].id = books[i].id
           /\ books'[j].title = books[i].title
           /\ OnLoanAt(books', j) >= OnLoanAt(books, i)]_vars

\* C28: FastCache eviction is recency-based: a set() on a cache that holds
\* max_size entries evicts the least recently used key and no other
C28_EvictsLeastRecentlyUsed ==
  [][\A key \in CacheKeys :
       (set(key, "value") /\ Cardinality(DOMAIN cache) >= MaxSize) =>
         DOMAIN cache' = (DOMAIN cache \ {Head(used)}) \cup {key}]_vars

\* C29: for every member in every reachable state,
\* 0 <= current_borrowed <= total_borrowed, under any sequence of issues,
\* returns and update_borrow_count calls with delta +1 or -1
C29_BorrowCountersOrdered ==
  \A m \in DOMAIN members :
    /\ 0 <= members[m].current_borrowed
    /\ members[m].current_borrowed <= members[m].total_borrowed

\* a member with nothing borrowed was handed a delta of -1, another member
\* holds a loan
C29_Witness ==
  /\ last.op = "update_borrow_count"
  /\ \E m \in DOMAIN members :
       members[m].current_borrowed = 0 /\ members[m].total_borrowed = MaxBorrowed
  /\ \E m \in DOMAIN members : members[m].current_borrowed > 1
  /\ Len(transactions) = MaxTx

\* the member with this id has as many loans as max_books allows
AtLimit(member_id) ==
  \E i \in DOMAIN members :
    members[i].id = member_id /\ members[i].current_borrowed = members[i].max_books

\* C30: a member never holds more loans at a time than max_books: an issue
\* to a member whose current_borrowed equals max_books does not succeed,
\* through issue_book and through the issue form
C30_IssueRespectsMaxBooks ==
  [][/\ \A k \in BookIds, m \in MemberIds :
          (issue_book(k, m) /\ AtLimit(m)) => ~last'.ok
     /\ \A name \in Names, title \in Titles, code \in IsbnInputs :
          (/\ _perform_book_issue_save(name, title, code)
           /\ \E i \in DOMAIN members :
                /\ Lower(members[i].name) = Lower(name)
                /\ AtLimit(members[i].id)) => ~last'.ok]_vars

====
